---------------------------- MODULE Spec2Model ----------------------------
(***************************************************************************)
(* Model of the SFTP client of client.go: the constructor NewClient with   *)
(* its handshake, the writer and reader pump goroutines, the dispatcher    *)
(* goroutine, and callers of OpenDir / ReadDir.                            *)
(*                                                                         *)
(* Unbuffered Go channels (incoming, outgoing) are modelled as rendezvous: *)
(* one action moves the value from the blocked sender to the blocked       *)
(* receiver.  errch is a buffered channel of capacity ErrchCap.            *)
(* A Go panic ends the whole process: it sets crashed, and no action is    *)
(* enabled afterwards.                                                     *)
(*                                                                         *)
(* Router (NewRouter, Get, Resolve), readConn and writeConn belong to the  *)
(* package but not to client.go; they are modelled from the specification  *)
(* (sections 4.1 and 4.2).  The codec (sshfxp) is an external collaborator:*)
(* a frame either decodes to the message it carries or fails to decode.    *)
(***************************************************************************)
EXTENDS Naturals, Sequences, FiniteSets, TLC

\* ------------------------------------------------------------ bounds
NumCallers == 2      \* goroutines that call OpenDir / ReadDir, one call each
MaxFrames == 3       \* frames the stream delivers before it goes silent or ends

\* --------------------------------------------------- program constants
InitVersion == 3     \* sshfxp.Init{Version: 3}
ErrchCap == 2        \* make(chan error, 2)
PumpCount == 2       \* cli.wg.Add(2)

Callers == 1..NumCallers
FirstId == 1
\* ids a response frame may carry: every id Get can hand out, and one more
WireIds == FirstId..(FirstId + NumCallers)

Handles == {"abc", "xyz"}
StatusPairs == {<<2, "no such file">>, <<4, "failure">>}
Versions == {InitVersion, InitVersion + 1}
Ops == {"OpenDir", "ReadDir"}

NoErr == "nil"
ErrTransport == "TransportError"     \* I/O failure of the stream
ErrClosed == "Closed"                \* the stream ended (distinguished outcome)
ErrEncode == "EncodeError"
ErrDecode == "DecodeError"
ErrUnexpectedMsg == "unexpected message received"
ErrUnsupportedVersion == "unsupported version"
ErrRouting == "RoutingError"

\* A message / frame.  All variants share one record shape.
Mk(t, i, v, h, c, x) == [type |-> t, id |-> i, ver |-> v, handle |-> h, code |-> c, text |-> x]
NoMsg == Mk("none", 0, 0, "", 0, "")
InitMsg == Mk("init", 0, InitVersion, "", 0, "")
VersionMsg(v) == Mk("version", 0, v, "", 0, "")
HandleMsg(i, h) == Mk("handle", i, 0, h, 0, "")
StatusMsg(i, c, x) == Mk("status", i, 0, "", c, x)
NameMsg(i) == Mk("name", i, 0, "", 0, "")
Malformed == Mk("malformed", 0, 0, "", 0, "")
RequestMsg(o, i) == Mk(o, i, 0, "", 0, "")

\* Frames the peer may put on the stream: anything, stray and duplicate
\* responses included.
ServerFrames ==
    {VersionMsg(v) : v \in Versions}
      \cup {HandleMsg(i, h) : i \in WireIds, h \in Handles}
      \cup {StatusMsg(i, p[1], p[2]) : i \in WireIds, p \in StatusPairs}
      \cup {NameMsg(i) : i \in WireIds}
      \cup {Malformed}

VARIABLES
    ctorPc,        \* position of NewClient
    hsPkt,         \* DoHandshake: the first frame received from cli.incoming
    hsErr,         \* err returned by DoHandshake
    version,       \* cli.version
    ioErr,         \* cli.ioErr
    outClosed,     \* cli.outgoing has been closed
    closes,        \* how many times close(cli.outgoing) was executed
    readerClosed,  \* cli.reader.Close() was called
    writerClosed,  \* cli.writer.Close() was called
    wg,            \* cli.wg counter
    waited,        \* a call of Wait() has returned
    errch,         \* cli.errch, buffered
    writerPc, writerPkt, writerOut,   \* writer pump goroutine
    readerPc, readerPkt, readerOut,   \* reader pump goroutine
    nread,         \* frames read from the stream so far
    wireOut,       \* frames written to the stream so far
    dispPc,        \* dispatcher goroutine
    handleErr,     \* err of the dispatcher's last handleMessage
    table,         \* router: pairs <<id, caller>>, the caller whose slot awaits that id
    nextId,        \* router: id generator
    slot,          \* the response slot (channel) of each caller's request
    pc, op, reqId, got, res,          \* callers
    afterClose,    \* the call began when outgoing was already closed
    crashed        \* a goroutine panicked: the process is gone

vars == <<ctorPc, hsPkt, hsErr, version, ioErr, outClosed, closes, readerClosed, writerClosed,
          wg, waited, errch, writerPc, writerPkt, writerOut, readerPc, readerPkt,
          readerOut, nread, wireOut, dispPc, handleErr, table, nextId, slot,
          pc, op, reqId, got, res, afterClose, crashed>>

ctorVars == <<ctorPc, hsPkt, hsErr, version>>
flagVars == <<outClosed, closes, readerClosed, writerClosed>>
writerVars == <<writerPc, writerPkt, writerOut, wireOut>>
readerVars == <<readerPc, readerPkt, readerOut, nread>>
routerVars == <<table, nextId, slot>>
callerVars == <<pc, op, reqId, got, res, afterClose>>

\* What a public operation returns: (value, error); a nil error is <<>>.
NilErr == <<>>
Ret(v, e) == [val |-> v, err |-> e]
NoRes == Ret("", NilErr)

Init ==
    /\ ctorPc = "hs_encode"
    /\ hsPkt = NoMsg
    /\ hsErr = NoErr
    /\ version = 0
    /\ ioErr = NoErr
    /\ outClosed = FALSE
    /\ closes = 0
    /\ readerClosed = FALSE
    /\ writerClosed = FALSE
    /\ wg = PumpCount
    /\ waited = FALSE
    /\ errch = <<>>
    /\ writerPc = "take" /\ writerPkt = NoMsg /\ writerOut = NoErr
    /\ readerPc = "read" /\ readerPkt = NoMsg /\ readerOut = NoErr
    /\ nread = 0
    /\ wireOut = <<>>
    /\ dispPc = "none"
    /\ handleErr = NoErr
    /\ table = {}
    /\ nextId = FirstId
    /\ slot = [c \in Callers |-> NoMsg]
    /\ pc = [c \in Callers |-> "idle"]
    /\ op = [c \in Callers |-> "none"]
    /\ reqId = [c \in Callers |-> 0]
    /\ got = [c \in Callers |-> NoMsg]
    /\ res = [c \in Callers |-> NoRes]
    /\ afterClose = [c \in Callers |-> FALSE]
    /\ crashed = FALSE

\* ------------------------------------------------------------ codec
\* pkt.Decode(): the message a frame carries, or an error.
DecodeFails(pkt) == pkt.type = "malformed"

\* pkt.Encode(x) may fail; whether it does is the codec's choice.
EncodeOutcomes == {TRUE, FALSE}

\* send: `x.(sshfxp.Header)`, the variants with a correlation id.
\* (variant: the request variants do not implement Header)
IsHeader_ResponsesOnly(msg) == msg.type \in {"handle", "status", "name"}

IsHeader(msg) == msg.type \in {"OpenDir", "ReadDir", "handle", "status", "name"}

\* ------------------------------------------------------------ router
TableIds == {e[1] : e \in table}
SlotOwner(id) == CHOOSE c \in Callers : <<id, c>> \in table

\* Router.Resolve: the error it returns for a message.
ResolveErr(msg) ==
    IF IsHeader(msg) /\ msg.id \in TableIds THEN NoErr ELSE ErrRouting

\* Router.Resolve: the table after resolving a message.
\* (variant: the entry stays in the table after its delivery)
ResolveTable_KeepEntry(msg) == table

ResolveTable(msg) ==
    IF ResolveErr(msg) = NoErr THEN {e \in table : e[1] # msg.id} ELSE table

\* Router.Resolve: the slots after resolving a message.
ResolveSlots(msg) ==
    IF ResolveErr(msg) = NoErr
    THEN [slot EXCEPT ![SlotOwner(msg.id)] = msg]
    ELSE slot

\* ------------------------------------------------------ transport pumps
\* The report `cli.errch <- outcome` and the deferred wg.Done().
\* (variant: errch has one slot for both goroutines)
Report_OneSlot(out) ==
    /\ Len(errch) < 1
    /\ errch' = Append(errch, out)
    /\ wg' = wg - 1

Report(out) ==
    /\ Len(errch) < ErrchCap
    /\ errch' = Append(errch, out)
    /\ wg' = wg - 1

\* writeConn: the outbound queue is closed, stop with the clean outcome.
WriterSeesClosed ==
    /\ ~crashed
    /\ writerPc = "take"
    /\ outClosed
    /\ writerPc' = "report"
    /\ writerOut' = NoErr
    /\ UNCHANGED <<writerPkt, wireOut>>
    /\ UNCHANGED <<ctorVars, ioErr, flagVars, wg, waited, errch, readerVars,
                   dispPc, handleErr, routerVars, callerVars, crashed>>

\* writeConn: write the frame taken; a write error stops the pump.
WriterWrite ==
    /\ ~crashed
    /\ writerPc = "write"
    /\ \E ok \in {TRUE, FALSE} :
          /\ writerClosed => ~ok
          /\ IF ok
             THEN /\ wireOut' = Append(wireOut, writerPkt)
                  /\ writerPc' = "take"
                  /\ writerOut' = writerOut
             ELSE /\ wireOut' = wireOut
                  /\ writerPc' = "report"
                  /\ writerOut' = ErrTransport
    /\ writerPkt' = NoMsg
    /\ UNCHANGED <<ctorVars, ioErr, flagVars, wg, waited, errch, readerVars,
                   dispPc, handleErr, routerVars, callerVars, crashed>>

WriterReport ==
    /\ ~crashed
    /\ writerPc = "report"
    /\ Report(writerOut)
    /\ writerPc' = "done"
    /\ UNCHANGED <<writerPkt, writerOut, wireOut>>
    /\ UNCHANGED <<ctorVars, ioErr, flagVars, waited, readerVars,
                   dispPc, handleErr, routerVars, callerVars, crashed>>

\* readConn: read one frame; a stream error or close stops the pump.
ReaderRead ==
    /\ ~crashed
    /\ readerPc = "read"
    /\ \/ /\ ~readerClosed
          /\ nread < MaxFrames
          /\ \E f \in ServerFrames : readerPkt' = f
          /\ nread' = nread + 1
          /\ readerPc' = "publish"
          /\ readerOut' = readerOut
       \/ /\ \E e \in {ErrTransport, ErrClosed} :
                /\ readerClosed => e = ErrTransport
                /\ readerOut' = e
          /\ readerPc' = "report"
          /\ UNCHANGED <<readerPkt, nread>>
    /\ UNCHANGED <<ctorVars, ioErr, flagVars, wg, waited, errch, writerVars,
                   dispPc, handleErr, routerVars, callerVars, crashed>>

ReaderReport ==
    /\ ~crashed
    /\ readerPc = "report"
    /\ Report(readerOut)
    /\ readerPc' = "done"
    /\ UNCHANGED <<readerPkt, readerOut, nread>>
    /\ UNCHANGED <<ctorVars, ioErr, flagVars, waited, writerVars,
                   dispPc, handleErr, routerVars, callerVars, crashed>>

\* `cli.outgoing <- pkt` meeting the writer pump's receive.
WriterTakes(pkt) ==
    /\ ~outClosed
    /\ writerPc = "take"
    /\ writerPc' = "write"
    /\ writerPkt' = pkt
    /\ UNCHANGED <<writerOut, wireOut>>

\* `<-cli.incoming` meeting the reader pump's publish.
ReaderHandsOver ==
    /\ readerPc = "publish"
    /\ readerPc' = "read"
    /\ readerPkt' = NoMsg
    /\ UNCHANGED <<readerOut, nread>>

\* ------------------------------------------------------------ handshake
\* DoHandshake, after the first frame arrived: the error it returns.
\* (variant: the version comparison is missing)
HandshakeErr_NoVersionCheck(pkt) ==
    IF DecodeFails(pkt) THEN ErrDecode
    ELSE IF pkt.type # "version" THEN ErrUnexpectedMsg
    ELSE NoErr

HandshakeErr(pkt) ==
    IF DecodeFails(pkt) THEN ErrDecode
    ELSE IF pkt.type # "version" THEN ErrUnexpectedMsg
    ELSE IF pkt.ver # InitVersion THEN ErrUnsupportedVersion
    ELSE NoErr

\* DoHandshake: `cli.version = version.Version`.
\* (variant: the assignment is missing)
NegotiatedVersion_Unset(pkt) == 0

NegotiatedVersion(pkt) == pkt.ver

\* DoHandshake: send(init) encodes the init message.  Init is no Header, so
\* the router is not asked for an id.
HsEncode ==
    /\ ~crashed
    /\ ctorPc = "hs_encode"
    /\ \E encOk \in EncodeOutcomes :
          IF encOk
          THEN ctorPc' = "hs_push" /\ hsErr' = hsErr
          ELSE ctorPc' = "fail_close" /\ hsErr' = ErrEncode
    /\ UNCHANGED <<hsPkt, version, ioErr, flagVars, wg, waited, errch, writerVars,
                   readerVars, dispPc, handleErr, routerVars, callerVars, crashed>>

\* DoHandshake: send(init) pushes the frame: `cli.outgoing <- pkt`.
HsPush ==
    /\ ~crashed
    /\ ctorPc = "hs_push"
    /\ WriterTakes(InitMsg)
    /\ ctorPc' = "hs_recv"
    /\ UNCHANGED <<hsPkt, hsErr, version, ioErr, flagVars, wg, waited, errch,
                   readerVars, dispPc, handleErr, routerVars, callerVars, crashed>>

\* NewClient: the dispatcher goroutine is started only when DoHandshake
\* returned nil; the failure path returns before.
\* (variant: the failure path does not return and falls through)
DispatcherStart_Always(err) == "select"

DispatcherStart(err) == IF err = NoErr THEN "select" ELSE "none"

\* DoHandshake: `pkt := <-cli.incoming`, decode, check, record the version.
\* On success NewClient adds the dispatcher to the wait group, starts it and
\* returns cli.
HsRecv ==
    /\ ~crashed
    /\ ctorPc = "hs_recv"
    /\ ReaderHandsOver
    /\ hsPkt' = readerPkt
    /\ LET err == HandshakeErr(readerPkt) IN
          /\ hsErr' = err
          /\ IF err = NoErr
             THEN /\ version' = NegotiatedVersion(readerPkt)
                  /\ ctorPc' = "returned"
             ELSE /\ version' = version
                  /\ ctorPc' = "fail_close"
          /\ dispPc' = DispatcherStart(err)
          /\ wg' = IF DispatcherStart(err) = "select" THEN wg + 1 ELSE wg
    /\ UNCHANGED <<ioErr, flagVars, waited, errch, writerVars,
                   handleErr, routerVars, callerVars, crashed>>

\* NewClient, handshake failed: close(cli.outgoing).
\* Closing a closed channel would panic.
FailCloseOutgoing ==
    /\ ~crashed
    /\ ctorPc = "fail_close"
    /\ closes' = closes + 1
    /\ IF outClosed
       THEN /\ crashed' = TRUE
            /\ UNCHANGED <<outClosed, ctorPc>>
       ELSE /\ outClosed' = TRUE
            /\ ctorPc' = "fail_rclose"
            /\ crashed' = crashed
    /\ UNCHANGED <<hsPkt, hsErr, version, ioErr, readerClosed, writerClosed, wg, waited,
                   errch, writerVars, readerVars, dispPc, handleErr, routerVars,
                   callerVars>>

\* NewClient, handshake failed: cli.reader.Close().
FailCloseReader ==
    /\ ~crashed
    /\ ctorPc = "fail_rclose"
    /\ readerClosed' = TRUE
    /\ ctorPc' = "fail_wclose"
    /\ UNCHANGED <<hsPkt, hsErr, version, ioErr, outClosed, closes, writerClosed, wg, waited,
                   errch, writerVars, readerVars, dispPc, handleErr, routerVars,
                   callerVars, crashed>>

\* NewClient, handshake failed: cli.writer.Close().
FailCloseWriter ==
    /\ ~crashed
    /\ ctorPc = "fail_wclose"
    /\ writerClosed' = TRUE
    /\ ctorPc' = "fail_join"
    /\ UNCHANGED <<hsPkt, hsErr, version, ioErr, outClosed, closes, readerClosed, wg, waited,
                   errch, writerVars, readerVars, dispPc, handleErr, routerVars,
                   callerVars, crashed>>

\* NewClient, handshake failed: cli.wg.Wait(); cli.ioErr = err; return nil.
FailJoin ==
    /\ ~crashed
    /\ ctorPc = "fail_join"
    /\ wg = 0
    /\ ioErr' = hsErr
    /\ ctorPc' = "returned_nil"
    /\ UNCHANGED <<hsPkt, hsErr, version, flagVars, wg, waited, errch, writerVars,
                   readerVars, dispPc, handleErr, routerVars, callerVars, crashed>>

\* Client.Wait(), called on the client NewClient returned.
WaitReturns ==
    /\ ~crashed
    /\ ctorPc = "returned"
    /\ ~waited
    /\ wg = 0
    /\ waited' = TRUE
    /\ UNCHANGED <<ctorVars, ioErr, flagVars, wg, errch, writerVars, readerVars,
                   dispPc, handleErr, routerVars, callerVars, crashed>>

\* Client.Version()
Version == version

\* ------------------------------------------------------------ dispatcher
\* handleMessage: the error it returns.
HandleMessageErr(pkt) ==
    IF DecodeFails(pkt) THEN ErrDecode ELSE ResolveErr(pkt)

\* The dispatch loop after handleMessage returned err: the error is logged
\* and the loop goes on.
\* (variant: an error of handleMessage ends the loop)
AfterHandle_BreakOnError(err) == IF err = NoErr THEN "select" ELSE "closing"

\* (variant: the loop is left after the first message)
AfterHandle_Once(err) == "closing"

AfterHandle(err) == "select"

\* The errch case: `break L` after any outcome.
\* (variant: the loop goes on after an outcome)
AfterOutcome_Continue(err) == "select"

AfterOutcome(err) == "closing"

\* The errch case: what a pump outcome makes of cli.ioErr.
RecordOutcome(old, err) == IF err # NoErr THEN err ELSE old

\* case msg := <-cli.incoming: handleMessage(msg)
DispatchMessage ==
    /\ ~crashed
    /\ dispPc = "select"
    /\ ReaderHandsOver
    /\ LET err == HandleMessageErr(readerPkt) IN
          /\ handleErr' = err
          /\ IF DecodeFails(readerPkt)
             THEN UNCHANGED <<table, slot>>
             ELSE /\ table' = ResolveTable(readerPkt)
                  /\ slot' = ResolveSlots(readerPkt)
          /\ dispPc' = AfterHandle(err)
    /\ UNCHANGED <<ctorVars, ioErr, flagVars, wg, waited, errch, writerVars,
                   nextId, callerVars, crashed>>

\* case err := <-cli.errch: record a non-nil err, break L
DispatchOutcome ==
    /\ ~crashed
    /\ dispPc = "select"
    /\ errch # <<>>
    /\ ioErr' = RecordOutcome(ioErr, Head(errch))
    /\ errch' = Tail(errch)
    /\ dispPc' = AfterOutcome(Head(errch))
    /\ UNCHANGED <<ctorVars, flagVars, wg, waited, writerVars, readerVars,
                   handleErr, routerVars, callerVars, crashed>>

\* close(cli.outgoing) after the loop, then the deferred wg.Done().
\* Closing a closed channel would panic.
DispatchClose ==
    /\ ~crashed
    /\ dispPc = "closing"
    /\ closes' = closes + 1
    /\ IF outClosed
       THEN /\ crashed' = TRUE
            /\ UNCHANGED <<outClosed, dispPc, wg>>
       ELSE /\ outClosed' = TRUE
            /\ dispPc' = "done"
            /\ wg' = wg - 1
            /\ crashed' = crashed
    /\ UNCHANGED <<ctorVars, ioErr, readerClosed, writerClosed, waited, errch,
                   writerVars, readerVars, handleErr, routerVars, callerVars>>

\* --------------------------------------------------------------- callers
\* header.SetID(id): the id stamped on the request.
\* (variant: the id is never stamped and keeps its zero value)
SetID_Zero(id) == 0

SetID(id) == id

FmtStatus(code, text) == <<code, " - ", text>>
FmtUnexpected(msg) == <<"unexpected response: ", msg>>

\* OpenDir: what it returns for the message received on its response slot.
\* (variant: the *sshfxp.Status case is missing)
OpenDirResult_NoStatusCase(msg) ==
    IF msg.type = "handle" THEN Ret(msg.handle, NilErr)
    ELSE Ret("", FmtUnexpected(msg))

OpenDirResult(msg) ==
    IF msg.type = "handle" THEN Ret(msg.handle, NilErr)
    ELSE IF msg.type = "status" THEN Ret("", FmtStatus(msg.code, msg.text))
    ELSE Ret("", FmtUnexpected(msg))

\* ReadDir: the message received is logged and (nil, nil) is returned.
ReadDirResult(msg) == Ret("", NilErr)

OpResult(o, msg) == IF o = "OpenDir" THEN OpenDirResult(msg) ELSE ReadDirResult(msg)

\* OpenDir / ReadDir up to the push: send() asks the router for an id and a
\* slot (Router.Get) when the message is a Header, stamps the id, and
\* encodes.  An encode error returns from send and from the operation.
\* Without a slot the operation would receive from a nil channel, forever.
CallStart(c) ==
    /\ ~crashed
    /\ ctorPc = "returned"
    /\ pc[c] = "idle"
    /\ \E o \in Ops, encOk \in EncodeOutcomes :
          /\ op' = [op EXCEPT ![c] = o]
          /\ IF IsHeader(RequestMsg(o, 0))
             THEN /\ table' = table \cup {<<nextId, c>>}
                  /\ nextId' = nextId + 1
                  /\ reqId' = [reqId EXCEPT ![c] = SetID(nextId)]
             ELSE UNCHANGED <<table, nextId, reqId>>
          /\ IF encOk
             THEN /\ pc' = [pc EXCEPT ![c] = "push"]
                  /\ res' = res
             ELSE /\ pc' = [pc EXCEPT ![c] = "done"]
                  /\ res' = [res EXCEPT ![c] = Ret("", <<ErrEncode>>)]
    /\ afterClose' = [afterClose EXCEPT ![c] = outClosed]
    /\ UNCHANGED <<ctorVars, ioErr, flagVars, wg, waited, errch, writerVars,
                   readerVars, dispPc, handleErr, slot, got, crashed>>

\* An operation called on the nil *Client that NewClient returned:
\* cli.router dereferences nil and panics.
CallOnNil(c) ==
    /\ ~crashed
    /\ ctorPc = "returned_nil"
    /\ pc[c] = "idle"
    /\ pc' = [pc EXCEPT ![c] = "panic"]
    /\ afterClose' = [afterClose EXCEPT ![c] = outClosed]
    /\ crashed' = TRUE
    /\ UNCHANGED <<ctorVars, ioErr, flagVars, wg, waited, errch, writerVars,
                   readerVars, dispPc, handleErr, routerVars, op, reqId, got, res>>

\* send: `cli.outgoing <- pkt`.  A send on a closed channel panics, also
\* when the sender was already blocked in it.
CallPush(c) ==
    /\ ~crashed
    /\ pc[c] = "push"
    /\ IF outClosed
       THEN /\ pc' = [pc EXCEPT ![c] = "panic"]
            /\ crashed' = TRUE
            /\ UNCHANGED writerVars
       ELSE /\ WriterTakes(RequestMsg(op[c], reqId[c]))
            /\ pc' = [pc EXCEPT ![c] = "await"]
            /\ crashed' = crashed
    /\ UNCHANGED <<ctorVars, ioErr, flagVars, wg, waited, errch, readerVars,
                   dispPc, handleErr, routerVars, op, reqId, got, res, afterClose>>

\* The operation receives from its response slot and interprets the message.
CallAwait(c) ==
    /\ ~crashed
    /\ pc[c] = "await"
    /\ slot[c] # NoMsg
    /\ got' = [got EXCEPT ![c] = slot[c]]
    /\ slot' = [slot EXCEPT ![c] = NoMsg]
    /\ res' = [res EXCEPT ![c] = OpResult(op[c], slot[c])]
    /\ pc' = [pc EXCEPT ![c] = "done"]
    /\ UNCHANGED <<ctorVars, ioErr, flagVars, wg, waited, errch, writerVars,
                   readerVars, dispPc, handleErr, table, nextId, op, reqId,
                   afterClose, crashed>>

\* --------------------------------------------------------- specification
\* The steps the Go scheduler and the transport take by themselves.
ProgramNext ==
    \/ HsEncode \/ HsPush \/ HsRecv
    \/ FailCloseOutgoing \/ FailCloseReader \/ FailCloseWriter \/ FailJoin
    \/ WriterSeesClosed \/ WriterWrite \/ WriterReport
    \/ ReaderRead \/ ReaderReport
    \/ DispatchMessage \/ DispatchOutcome \/ DispatchClose
    \/ WaitReturns
    \/ \E c \in Callers : CallPush(c) \/ CallAwait(c)

\* The steps the program's user decides to take.
UserNext == \E c \in Callers : CallStart(c) \/ CallOnNil(c)

Next == ProgramNext \/ UserNext

Spec == Init /\ [][Next]_vars

\* ---------------------------------------------------------------- phases
\* The session phase of the specification, read off the program's state.
Phase ==
    IF ctorPc \in {"hs_encode", "hs_push"} THEN "Connecting"
    ELSE IF ctorPc = "hs_recv" THEN "Handshaking"
    ELSE IF ctorPc \in {"fail_close", "fail_rclose", "fail_wclose", "fail_join"}
         THEN "Closing"
    ELSE IF ctorPc = "returned_nil" THEN "Closed"
    ELSE IF dispPc = "select" THEN "Ready"
    ELSE IF dispPc = "closing" \/ wg # 0 THEN "Closing"
    ELSE "Closed"

\* No goroutine of the program can take a step, and it has not crashed:
\* whatever is blocked now stays blocked for ever.
Quiescent == ~crashed /\ ~ENABLED ProgramNext

\* The request of caller c is outstanding: sent or being sent, not answered.
Outstanding(c) == pc[c] \in {"push", "await"}

Pos(q, f) == CHOOSE i \in 1..Len(q) : q[i] = f
Sent(c) == \E i \in 1..Len(wireOut) : wireOut[i] = RequestMsg(op[c], reqId[c])

\* ----------------------------------------------------------------- claims

\* C1: correlation under reordering.  An OpenDir call that returned a handle
\* received the response whose id is the id stamped on its own request and
\* returns exactly that response's handle; a response delivered to a slot
\* carries the id of that slot's request; no two calls received responses
\* with the same id.
C1_CorrelationUnderReordering ==
    /\ \A c \in Callers :
          /\ slot[c] # NoMsg => slot[c].id = reqId[c]
          /\ (op[c] = "OpenDir" /\ pc[c] = "done" /\ got[c].type = "handle")
                => /\ got[c].id = reqId[c]
                   /\ res[c] = Ret(got[c].handle, NilErr)
    /\ \A c, d \in Callers :
          (c # d /\ got[c] # NoMsg /\ got[d] # NoMsg) => got[c].id # got[d].id

\* Two OpenDir requests were written to the stream, c's before d's; d has
\* returned its handle while c, sent first, still awaits its response.
C1_Witness ==
    \E c, d \in Callers :
        /\ c # d /\ op[c] = "OpenDir" /\ op[d] = "OpenDir"
        /\ Sent(c) /\ Sent(d)
        /\ Pos(wireOut, RequestMsg(op[c], reqId[c])) < Pos(wireOut, RequestMsg(op[d], reqId[d]))
        /\ pc[d] = "done" /\ got[d].type = "handle" /\ res[d].val = got[d].handle
        /\ pc[c] = "await" /\ slot[c] = NoMsg

\* C2: after a pump's fatal outcome was taken by the dispatcher of a Ready
\* session, no caller stays blocked on its response slot for ever: once no
\* goroutine can take a step any more, no caller is still awaiting.
C2_PendingResolvedAfterFatal ==
    (Quiescent /\ ctorPc = "returned" /\ ioErr # NoErr)
        => \A c \in Callers : pc[c] # "await"

\* C3: after a pump's fatal outcome all three tasks terminate and Wait()
\* returns: once no goroutine can take a step any more, both pumps and the
\* dispatcher are done and the wait group is at zero; the reader pump is not
\* left blocked on publishing to the inbound queue.
C3_AllTasksTerminateAfterFatal ==
    (Quiescent /\ ctorPc = "returned" /\ ioErr # NoErr)
        => /\ readerPc = "done" /\ writerPc = "done" /\ dispPc = "done"
           /\ wg = 0 /\ waited

\* C4: handshake success.  When the first inbound frame is version(3),
\* construction has returned the client, the recorded version is 3 and
\* Version() returns 3 in that and every later state; the step that receives
\* the frame leaves the session Ready.
C4_HandshakeSuccess ==
    /\ [](hsPkt = VersionMsg(InitVersion)
            => ctorPc = "returned" /\ version = InitVersion /\ Version = 3
               /\ hsErr = NoErr)
    /\ [][(hsPkt # VersionMsg(InitVersion) /\ hsPkt' = VersionMsg(InitVersion))
            => Phase' = "Ready"]_vars

\* The handshake succeeded, the session has since been shut down, and
\* Version() is still 3.
C4_Witness ==
    /\ hsPkt = VersionMsg(InitVersion)
    /\ ctorPc = "returned" /\ dispPc = "done" /\ Version = 3

\* C5: handshake failure.  When the first inbound frame does not decode, is
\* no version message, or is version(v) with v # 3, DoHandshake returns an
\* error, NewClient never returns a client (it returns nil, with the
\* handshake error in ioErr), the session is never Ready, no dispatcher is
\* started, and no public operation call succeeds: a call can only panic on
\* the nil client.
C5_HandshakeFailure ==
    (hsPkt # NoMsg /\ hsPkt # VersionMsg(InitVersion))
        => /\ hsErr \in {ErrDecode, ErrUnexpectedMsg, ErrUnsupportedVersion}
           /\ ctorPc \in {"fail_close", "fail_rclose", "fail_wclose", "fail_join",
                          "returned_nil"}
           /\ ctorPc = "returned_nil" => ioErr = hsErr
           /\ Phase \in {"Closing", "Closed"}
           /\ dispPc = "none"
           /\ version = 0
           /\ \A c \in Callers : pc[c] \in {"idle", "panic"}

\* version(4) answered init(3); construction returned nil and an operation
\* was attempted on it.
C5_Witness ==
    /\ hsPkt = VersionMsg(InitVersion + 1)
    /\ hsErr = ErrUnsupportedVersion
    /\ ctorPc = "returned_nil"
    /\ \E c \in Callers : pc[c] = "panic"

\* C6: construction terminates.  Once no goroutine can take a step any
\* more, NewClient has returned (a client or nil): the handshake is not left
\* waiting on the inbound queue or on the outbound push.
C6_ConstructionTerminates ==
    Quiescent => ctorPc \in {"returned", "returned_nil"}

\* C7: an operation attempted on the client after the outbound queue was
\* closed fails fast: it does not crash, does not get to await a response,
\* and returns an error.
C7_FailFastAfterClose ==
    \A c \in Callers :
        (afterClose[c] /\ ctorPc = "returned")
            => /\ pc[c] \notin {"panic", "await"}
               /\ pc[c] = "done" => res[c].err # NilErr

\* C8: the ids stamped on requests outstanding at the same time are
\* pairwise distinct, each is the id under which the router holds the
\* request's slot, and the id the router hands out next is not in the table.
C8_OutstandingIdsDistinct ==
    /\ \A c, d \in Callers :
          (c # d /\ Outstanding(c) /\ Outstanding(d)) => reqId[c] # reqId[d]
    /\ \A c \in Callers : Outstanding(c) /\ slot[c] = NoMsg => <<reqId[c], c>> \in table
    /\ \A e, f \in table : e[1] = f[1] => e = f
    /\ nextId \notin TableIds

\* Two requests are outstanding at once.
C8_Witness ==
    \E c, d \in Callers :
        c # d /\ pc[c] = "await" /\ pc[d] = "push" /\ reqId[c] # reqId[d]

\* C9: a dispatcher step of a Ready session on a frame that decodes to a
\* message whose id matches no outstanding request gets a RoutingError from
\* handleMessage, leaves the router table and every response slot as they
\* were, and the session stays Ready: the loop goes on, the outbound queue
\* stays open and the session error unset.
C9_RoutingErrorNotFatal ==
    [][(DispatchMessage /\ ~DecodeFails(readerPkt) /\ readerPkt.id \notin TableIds)
          => /\ handleErr' = ErrRouting
             /\ table' = table /\ slot' = slot
             /\ dispPc' = "select" /\ Phase' = "Ready"
             /\ outClosed' = outClosed /\ ioErr' = ioErr]_vars

\* A stray response was rejected while a request was pending; the session
\* is still Ready with the request still pending.
C9_Witness ==
    /\ handleErr = ErrRouting
    /\ Phase = "Ready" /\ ~outClosed /\ ioErr = NoErr
    /\ \E c \in Callers : pc[c] = "await" /\ slot[c] = NoMsg /\ <<reqId[c], c>> \in table

\* C10: what OpenDir returns is a function of the variant received on its
\* slot: handle(h) gives (h, nil); status(code, text) gives an empty handle
\* and the error "<code> - <text>"; any other variant gives an empty handle
\* and an "unexpected response" error.
C10_OpenDirResult ==
    \A c \in Callers :
        (op[c] = "OpenDir" /\ pc[c] = "done" /\ got[c] # NoMsg)
            => IF got[c].type = "handle"
                 THEN res[c].val = got[c].handle /\ res[c].err = NilErr
               ELSE IF got[c].type = "status"
                 THEN /\ res[c].val = ""
                      /\ res[c].err = <<got[c].code, " - ", got[c].text>>
               ELSE /\ res[c].val = ""
                    /\ Len(res[c].err) = 2
                    /\ res[c].err[1] = "unexpected response: "

\* One OpenDir call returned the error of status(2, "no such file"), another
\* the error of an unexpected variant.
C10_Witness ==
    \E c, d \in Callers :
        /\ op[c] = "OpenDir" /\ pc[c] = "done"
        /\ res[c] = Ret("", <<2, " - ", "no such file">>)
        /\ op[d] = "OpenDir" /\ pc[d] = "done"
        /\ got[d].type = "name" /\ res[d].err[1] = "unexpected response: "

\* C11: a status response for one request touches that request only.  The
\* dispatcher step that resolves it leaves the session Ready, the session
\* error and the outbound queue as they were, and every other table entry
\* and slot untouched; the OpenDir step that receives it returns the
\* status error and changes nothing of the session, the table or the other
\* callers.
C11_StatusErrorIsLocal ==
    [][\A c \in Callers :
          /\ (DispatchMessage /\ readerPkt.type = "status" /\ <<readerPkt.id, c>> \in table)
                => /\ dispPc' = "select" /\ Phase' = "Ready"
                   /\ ioErr' = ioErr /\ outClosed' = outClosed
                   /\ slot'[c] = readerPkt
                   /\ table' = table \ {<<readerPkt.id, c>>}
                   /\ \A d \in Callers \ {c} : slot'[d] = slot[d]
          /\ (CallAwait(c) /\ op[c] = "OpenDir" /\ slot[c].type = "status")
                => /\ res'[c] = Ret("", FmtStatus(slot[c].code, slot[c].text))
                   /\ dispPc' = dispPc /\ ioErr' = ioErr /\ outClosed' = outClosed
                   /\ table' = table
                   /\ \A d \in Callers \ {c} :
                         slot'[d] = slot[d] /\ pc'[d] = pc[d] /\ res'[d] = res[d]]_vars

\* An OpenDir call returned a status error while the session is Ready and
\* another request is still pending, undelivered.
C11_Witness ==
    \E c, d \in Callers :
        /\ c # d
        /\ op[c] = "OpenDir" /\ pc[c] = "done" /\ got[c].type = "status"
        /\ res[c].err = FmtStatus(got[c].code, got[c].text)
        /\ Phase = "Ready" /\ ioErr = NoErr /\ ~outClosed
        /\ pc[d] = "await" /\ slot[d] = NoMsg /\ <<reqId[d], d>> \in table

\* C12: ReadDir interprets its response like every operation: a status
\* response gives the status error, a variant that is no answer to ReadDir
\* (here a handle) gives an error; it never reports success for them.
C12_ReadDirInterpretsResponse ==
    \A c \in Callers :
        (op[c] = "ReadDir" /\ pc[c] = "done" /\ got[c] # NoMsg)
            => /\ got[c].type = "status"
                    => res[c].err = FmtStatus(got[c].code, got[c].text)
               /\ got[c].type = "handle" => res[c].err # NilErr

\* C13: a frame the dispatcher of a Ready session cannot decode ends the
\* session: once handleMessage has returned the decode error, the session
\* is no longer Ready.
C13_DecodeFailureEscalates ==
    handleErr = ErrDecode => Phase # "Ready"

\* C14: the session error is written at most once: it is written only by
\* the dispatcher taking a non-nil pump outcome (to that outcome) or by the
\* constructor's failure path (to the handshake error); a nil outcome leaves
\* it unset; once set it never changes.
C14_SessionErrorWrittenOnce ==
    [][/\ ioErr # NoErr => ioErr' = ioErr
       /\ ioErr' # ioErr
            => \/ DispatchOutcome /\ Head(errch) # NoErr /\ ioErr' = Head(errch)
               \/ FailJoin /\ hsErr # NoErr /\ ioErr' = hsErr
       /\ (DispatchOutcome /\ Head(errch) = NoErr) => ioErr' = ioErr]_vars

\* The dispatcher recorded the writer's error; the reader's later outcome
\* sits on errch and has not replaced it.
C14_Witness ==
    /\ ioErr = ErrTransport /\ dispPc = "done"
    /\ errch = <<ErrClosed>>

\* C15: a response slot receives at most one delivery: a message is put
\* only into the empty slot of a request that has received nothing yet and
\* takes the request's entry out of the table; a further response with that
\* id reaches no slot and gets a RoutingError.
C15_SlotDeliveredAtMostOnce ==
    [][\A c \in Callers :
          /\ (slot'[c] # slot[c] /\ slot'[c] # NoMsg)
                => /\ slot[c] = NoMsg /\ got[c] = NoMsg
                   /\ <<reqId[c], c>> \in table /\ <<reqId[c], c>> \notin table'
          /\ (DispatchMessage /\ ~DecodeFails(readerPkt) /\ readerPkt.id = reqId[c]
                /\ (slot[c] # NoMsg \/ got[c] # NoMsg))
                => slot' = slot /\ got' = got /\ handleErr' = ErrRouting]_vars

\* A second response with the id of an answered request was rejected.
C15_Witness ==
    \E c \in Callers :
        /\ pc[c] = "done" /\ got[c] # NoMsg /\ slot[c] = NoMsg
        /\ handleErr = ErrRouting
        /\ nread = MaxFrames /\ readerPc = "read"
        /\ \A d \in Callers \ {c} : pc[d] = "idle"

\* C16 as stated: the outbound queue is closed at most once, by the
\* constructor's failure path or by the dispatcher after its loop, never by
\* both; and a writer pump that is still running when the queue is closed
\* stops with the clean (nil) outcome.
C16_ClosedOnceWriterClean ==
    /\ [](closes <= 1)
    /\ [][closes' # closes => FailCloseOutgoing \/ DispatchClose]_vars
    /\ [][(outClosed /\ writerPc \in {"take", "write"} /\ writerPc' = "report")
            => writerOut' = NoErr]_vars

\* C16, amended: the outbound queue is closed at most once, by the
\* constructor's failure path (after a failed handshake, with no dispatcher
\* started) or by the dispatcher after its loop, never by both; a writer pump
\* that waits on the closed queue stops with the clean (nil) outcome, and
\* once nothing can move any more the writer pump has terminated.
C16_ClosedOnceWaitingWriterClean ==
    /\ [](/\ closes <= 1
          /\ outClosed <=> closes = 1
          /\ dispPc # "none" => ctorPc = "returned"
          /\ (Quiescent /\ outClosed) => writerPc = "done")
    /\ [][closes' # closes
            => \/ FailCloseOutgoing /\ hsErr # NoErr /\ dispPc = "none"
               \/ DispatchClose /\ ctorPc = "returned"]_vars
    /\ [][(outClosed /\ writerPc = "take" /\ writerPc' # writerPc)
            => writerPc' = "report" /\ writerOut' = NoErr]_vars

\* The dispatcher closed the queue, once; the writer pump, which was
\* waiting on it, has reported the clean outcome and terminated.
C16_Witness ==
    /\ dispPc = "done" /\ closes = 1 /\ ioErr = ErrClosed
    /\ writerPc = "done" /\ writerOut = NoErr
    /\ errch = <<NoErr>>

\* C17: no push is attempted or pending on the closed outbound queue: no
\* caller of the client is in send's push, or has panicked in it, while the
\* queue is closed.
C17_NoPushOnClosedQueue ==
    \A c \in Callers :
        ctorPc = "returned" => ~(outClosed /\ pc[c] \in {"push", "panic"})

\* C18: a send that fails in Encode leaves the router table as it was: the
\* id reserved for the request is not in the table.
C18_EncodeFailureLeavesTable ==
    \A c \in Callers :
        (pc[c] = "done" /\ res[c].err = <<ErrEncode>>) => reqId[c] \notin TableIds

\* C19: each pump reports exactly one outcome and its report never blocks:
\* errch never holds more than its two slots, the outcomes reported (those
\* on errch and the one the dispatcher took) are as many as the pumps that
\* terminated, and a pump that has stopped can always complete its report.
C19_ReportsNeverBlock ==
    /\ Len(errch) <= ErrchCap
    /\ Len(errch) + (IF dispPc \in {"closing", "done"} THEN 1 ELSE 0)
          = Cardinality({p \in {"w", "r"} :
                (p = "w" /\ writerPc = "done") \/ (p = "r" /\ readerPc = "done")})
    /\ ~crashed =>
          /\ writerPc = "report" => ENABLED WriterReport
          /\ readerPc = "report" => ENABLED ReaderReport

\* The dispatcher has gone after taking one outcome; the other pump has
\* nevertheless reported its outcome and terminated.
C19_Witness ==
    /\ dispPc = "done"
    /\ writerPc = "done" /\ readerPc = "done"
    /\ Len(errch) = 1 /\ wg = 0

\* C20: after a failed handshake the constructor's join completes: once
\* nothing can move any more, NewClient has returned nil with the outbound
\* queue and both halves of the stream closed, both pumps terminated and no
\* dispatcher started.
C20_FailurePathJoins ==
    (Quiescent /\ hsErr # NoErr)
        => /\ ctorPc = "returned_nil"
           /\ outClosed /\ readerClosed /\ writerClosed
           /\ writerPc = "done" /\ readerPc = "done" /\ wg = 0
           /\ dispPc = "none"

=============================================================================
